---- MODULE Spec2Model ----
(***************************************************************************)
(* Narrekappe on/offboarding: the Proxmox user directory operations, the   *)
(* CSV bulk import and the VM lifecycle (deploy / stop), as state machines *)
(* over a model of the Proxmox host.                                       *)
(*                                                                         *)
(* Text is a sequence of symbols.  A symbol is one character ("{", " ",    *)
(* "J") or, to keep texts short, an atom that stands for a run of          *)
(* characters the code never looks inside ("first_name", "pve").           *)
(*                                                                         *)
(* The host is taken to be reachable: an SSH session is established and    *)
(* the outcome of execSSH is decided by its 'close' handler from the exit  *)
(* code and stderr of the command.                                         *)
(***************************************************************************)
EXTENDS Integers, Sequences, FiniteSets, TLC

VARIABLES
    comment,    \* decodeComment: the argument
    decoded     \* decodeComment: what each adapter's decodeComment gave

VARIABLES
    adapter,    \* which lib/proxmoxApi the deployment carries: "rest" or "ssh"
    directory,  \* the host's realm users: userid -> comment text
    last,       \* the latest direct call of a user directory operation
    prev        \* the call before it

VARIABLES
    csv,         \* bulk import: the csv text of the request body
    ipc,         \* bulk import: "idle" (request received), "rows", "done"
    rows,        \* bulk import: the parsed rows
    rowIx,       \* bulk import: the row the loop is at
    existingIds, \* bulk import: identifiers known to exist or issued
    results,     \* bulk import: the per-row results
    requests,    \* bulk import: the remote requests issued so far
    response,    \* bulk import: the HTTP response
    startIds,    \* bulk import: the identifiers the first listing returned
    refused      \* bulk import: the host refused to create an unused identifier

VARIABLES
    vms,        \* the host's VMs: vmid -> [status, disk, name, desc, by]
    diskFiles,  \* the templates whose disk file is on the host
    dp,         \* deployVM calls: caller -> the call's position and locals
    sp          \* the stopVM call: its position and locals

codecVars == <<comment, decoded>>

vmVars == <<vms, diskFiles, dp, sp>>

importVars ==
    <<csv, ipc, rows, rowIx, existingIds, results, requests, response, startIds, refused>>

userVars == <<adapter, directory, last, prev>>

vars == <<codecVars, userVars, importVars, vmVars>>

(***************************************************************************)
(* Text helpers                                                            *)
(***************************************************************************)
Range(s) == {s[i] : i \in 1..Len(s)}

SeqsUpTo(S, n) == UNION {[1..k -> S] : k \in 0..n}

IsWs(c) == c = " "

\* String.prototype.trim
RECURSIVE TrimLeft(_)
TrimLeft(s) == IF s # <<>> /\ IsWs(Head(s)) THEN TrimLeft(Tail(s)) ELSE s

RECURSIVE TrimRight(_)
TrimRight(s) ==
    IF s # <<>> /\ IsWs(s[Len(s)]) THEN TrimRight(SubSeq(s, 1, Len(s) - 1)) ELSE s

Trim(s) == TrimRight(TrimLeft(s))

\* String.prototype.includes: needle occurs as a contiguous run
Includes(s, needle) ==
    \E i \in 0..(Len(s) - Len(needle)) : SubSeq(s, i + 1, i + Len(needle)) = needle

(***************************************************************************)
(* JavaScript values, as far as the comment codecs see them                *)
(***************************************************************************)
JsNull      == [k |-> "null"]
JsUndefined == [k |-> "undefined"]
JsNum       == [k |-> "num"]
JsStr(s)    == [k |-> "str", v |-> s]
JsObj(f)    == [k |-> "obj", f |-> f]

EmptyStr == JsStr(<<>>)

\* ToBoolean is false for null, undefined and ''; the only number is non-zero
Falsy(x) == x.k \in {"null", "undefined"} \/ (x.k = "str" /\ x.v = <<>>)

\* a || b
OrElse(a, b) == IF Falsy(a) THEN b ELSE a

\* String(x) for the values the codecs pass it
ToText(x) == IF x.k = "str" THEN x.v ELSE <<"?">>

(***************************************************************************)
(* JSON.parse on a text.  Literals: null, a number atom, "string", and     *)
(* {"key": value, ...} objects, nested; blanks between tokens are skipped. *)
(* The result is [ok, val, next]; ok = FALSE is a SyntaxError.             *)
(***************************************************************************)
Quote == "\""

NumAtoms == {"7"}

ParseFail == [ok |-> FALSE, val |-> JsUndefined, next |-> 0]

RECURSIVE SkipWs(_, _)
SkipWs(s, i) == IF i <= Len(s) /\ IsWs(s[i]) THEN SkipWs(s, i + 1) ELSE i

\* index of the closing quote at or after i, 0 if none
RECURSIVE ClosingQuote(_, _)
ClosingQuote(s, i) ==
    IF i > Len(s) THEN 0
    ELSE IF s[i] = Quote THEN i
    ELSE ClosingQuote(s, i + 1)

\* s[i] is the opening quote
ParseString(s, i) ==
    LET j == ClosingQuote(s, i + 1)
    IN  IF j = 0 THEN ParseFail
        ELSE [ok |-> TRUE, val |-> JsStr(SubSeq(s, i + 1, j - 1)), next |-> j + 1]

RECURSIVE ParseValue(_, _)
RECURSIVE ParseMembers(_, _, _)

\* members of an object from position i on, the fields read so far in acc
ParseMembers(s, i, acc) ==
    LET p == SkipWs(s, i)
    IN  IF p > Len(s) \/ s[p] # Quote THEN ParseFail
        ELSE LET key == ParseString(s, p)
             IN  IF ~key.ok THEN ParseFail
                 ELSE LET c == SkipWs(s, key.next)
                      IN  IF c > Len(s) \/ s[c] # ":" THEN ParseFail
                          ELSE LET v == ParseValue(s, c + 1)
                               IN  IF ~v.ok THEN ParseFail
                                   ELSE LET acc2 == [x \in (DOMAIN acc) \cup {key.val.v} |->
                                                        IF x = key.val.v THEN v.val ELSE acc[x]]
                                            e == SkipWs(s, v.next)
                                        IN  IF e > Len(s) THEN ParseFail
                                            ELSE IF s[e] = "}"
                                                 THEN [ok |-> TRUE, val |-> JsObj(acc2), next |-> e + 1]
                                            ELSE IF s[e] = ","
                                                 THEN ParseMembers(s, e + 1, acc2)
                                            ELSE ParseFail

NoFields == [x \in {} |-> JsUndefined]

ParseValue(s, i) ==
    LET p == SkipWs(s, i)
    IN  IF p > Len(s) THEN ParseFail
        ELSE IF s[p] = "null" THEN [ok |-> TRUE, val |-> JsNull, next |-> p + 1]
        ELSE IF s[p] \in NumAtoms THEN [ok |-> TRUE, val |-> JsNum, next |-> p + 1]
        ELSE IF s[p] = Quote THEN ParseString(s, p)
        ELSE IF s[p] = "{"
             THEN LET q == SkipWs(s, p + 1)
                  IN  IF q <= Len(s) /\ s[q] = "}"
                      THEN [ok |-> TRUE, val |-> JsObj(NoFields), next |-> q + 1]
                      ELSE ParseMembers(s, p + 1, NoFields)
        ELSE ParseFail

\* the whole text must be one value
JSONParse(s) ==
    LET v == ParseValue(s, 1)
    IN  IF v.ok /\ SkipWs(s, v.next) = Len(s) + 1 THEN v ELSE ParseFail

\* JSON.stringify of a string / of {fullName, email}, in the key order given
JsonString(s) == <<Quote>> \o s \o <<Quote>>

JSONStringifyComment(fullName, email) ==
    <<"{">> \o JsonString(<<"fullName">>) \o <<":">> \o JsonString(fullName) \o <<",">>
    \o JsonString(<<"email">>) \o <<":">> \o JsonString(email) \o <<"}">>

\* obj.name for a parsed value: a TypeError on null, undefined on a primitive
GetProp(x, name) ==
    IF x.k \in {"null", "undefined"} THEN [threw |-> TRUE, val |-> JsUndefined]
    ELSE IF x.k = "obj" /\ name \in DOMAIN x.f THEN [threw |-> FALSE, val |-> x.f[name]]
    ELSE [threw |-> FALSE, val |-> JsUndefined]

(***************************************************************************)
(* The comment codecs.  The REST adapter stores the display name as plain  *)
(* text, the SSH adapter stores JSON of {fullName, email}.                 *)
(***************************************************************************)
Decoded(email, fullName) ==
    [called |-> TRUE, raised |-> FALSE, email |-> email, fullName |-> fullName]

Raised == [called |-> TRUE, raised |-> TRUE, email |-> JsUndefined, fullName |-> JsUndefined]

NotCalled ==
    [called |-> FALSE, raised |-> FALSE, email |-> JsUndefined, fullName |-> JsUndefined]

\* lib/proxmoxApi.js encodeComment: String(fullName || '').trim()
EncodeComment(fullName) == Trim(ToText(OrElse(fullName, EmptyStr)))

\* lib/proxmoxApi.js decodeComment
DecodeCommentRest(c) == Decoded(EmptyStr, JsStr(Trim(ToText(OrElse(c, EmptyStr)))))

\* the try block of the SSH adapter's decodeComment: [threw, email, fullName]
DecodeCommentSshTry(c) ==
    LET p == JSONParse(ToText(OrElse(c, JsStr(<<"{", "}">>))))
    IN  IF ~p.ok THEN [threw |-> TRUE, email |-> JsUndefined, fullName |-> JsUndefined]
        ELSE LET e == GetProp(p.val, <<"email">>)
                 f == GetProp(p.val, <<"fullName">>)
             IN  IF e.threw \/ f.threw
                 THEN [threw |-> TRUE, email |-> JsUndefined, fullName |-> JsUndefined]
                 ELSE [threw |-> FALSE,
                       email |-> OrElse(e.val, EmptyStr),
                       fullName |-> OrElse(f.val, EmptyStr)]

\* the same without the catch clause
DecodeCommentSshNoCatch(c) ==
    LET t == DecodeCommentSshTry(c)
    IN  IF t.threw THEN Raised ELSE Decoded(t.email, t.fullName)

\* the SSH adapter's decodeComment: try { ... } catch { return empty fields }
DecodeCommentSsh(c) ==
    LET t == DecodeCommentSshTry(c)
    IN  IF t.threw THEN Decoded(EmptyStr, EmptyStr) ELSE Decoded(t.email, t.fullName)

(***************************************************************************)
(* Comments handed to decodeComment: null, undefined, every text of up to  *)
(* MaxCommentLen symbols, and the encodings of some records with every     *)
(* truncation of them.                                                     *)
(***************************************************************************)
MaxCommentLen == 4

CommentSymbols == {"{", "}", ":", ",", Quote, " ", "email", "null"}

Prefixes(s) == {SubSeq(s, 1, n) : n \in 0..Len(s)}

SampleRecords ==
    { JSONStringifyComment(<<"J", " ", "D">>, <<"j", "d">>),
      JSONStringifyComment(<<>>, <<"j", "d">>),
      JSONStringifyComment(<<"J">>, <<>>),
      <<"{", Quote, "email", Quote, ":", "null", "}">>,
      <<"{", Quote, "email", Quote, ":", "7", ",", Quote, "fullName", Quote, ":", "{", "}", "}">>,
      <<" ", "{", Quote, "fullName", Quote, " ", ":", Quote, "J", Quote, "}", " ">>,
      <<" ", "J", " ", "D", " ">>,
      <<"J", "{">> }

CommentTexts == SeqsUpTo(CommentSymbols, MaxCommentLen) \cup UNION {Prefixes(r) : r \in SampleRecords}

CommentInputs == {JsNull, JsUndefined} \cup {JsStr(t) : t \in CommentTexts}

CodecIdle == comment = JsUndefined /\ decoded = [rest |-> NotCalled, ssh |-> NotCalled]

CodecInit == comment \in CommentInputs /\ decoded = [rest |-> NotCalled, ssh |-> NotCalled]

CallDecodeRest ==
    /\ ~decoded.rest.called
    /\ decoded' = [decoded EXCEPT !.rest = DecodeCommentRest(comment)]
    /\ UNCHANGED comment

CallDecodeSsh ==
    /\ ~decoded.ssh.called
    /\ decoded' = [decoded EXCEPT !.ssh = DecodeCommentSsh(comment)]
    /\ UNCHANGED comment

(***************************************************************************)
(* Transport adapters                                                      *)
(***************************************************************************)
\* what a shell command line gave on the host: exit code, stdout, stderr
ShellResult(code, out, err) == [code |-> code, out |-> out, err |-> err]

\* cmd 2>/dev/null
ErrToNull(r) == [r EXCEPT !.err = <<>>]

\* cmd || true
OrTrue(r) == [r EXCEPT !.code = 0]

\* a variant of execSSH that resolves whatever the exit code
ExecSSHIgnoreExit(r) == [rejected |-> FALSE, out |-> Trim(r.out), message |-> <<>>]

\* execSSH, the 'close' handler: reject when the exit code is non-zero and
\* stderr is non-empty, else resolve with the trimmed stdout
ExecSSH(r) ==
    IF r.code # 0 /\ r.err # <<>>
    THEN [rejected |-> TRUE, out |-> <<>>, message |-> <<"Command", "failed">> \o r.err]
    ELSE [rejected |-> FALSE, out |-> Trim(r.out), message |-> <<>>]

\* proxmoxRequest: throws the response's message unless res.ok
ProxmoxRequest(resOk, text) ==
    IF resOk THEN [rejected |-> FALSE, message |-> <<>>]
    ELSE [rejected |-> TRUE, message |-> text]

(***************************************************************************)
(* The host's user directory                                               *)
(***************************************************************************)
\* process.env.PROXMOX_REALM || 'pve'
Realm == <<"pve">>

\* `${username}@${realm}`
UserIdOf(username) == username \o <<"@">> \o Realm

\* userid.split('@')[0]
RECURSIVE BeforeAt(_)
BeforeAt(s) ==
    IF s = <<>> \/ Head(s) = "@" THEN <<>> ELSE <<Head(s)>> \o BeforeAt(Tail(s))

\* the host creates a user: refused for an empty or existing userid, or when
\* the host says no for a reason of its own (accept = FALSE)
HostAddUser(dir, userid, cmt, accept) ==
    IF userid # <<>> /\ userid \notin DOMAIN dir /\ accept
    THEN [ok |-> TRUE,
          dir |-> [u \in (DOMAIN dir) \cup {userid} |-> IF u = userid THEN cmt ELSE dir[u]],
          err |-> <<>>]
    ELSE [ok |-> FALSE, dir |-> dir,
          err |-> IF userid \in DOMAIN dir
                  THEN <<"create", "user", "failed:", "user", "already", "exists">>
                  ELSE <<"create", "user", "failed">>]

HostDeleteUser(dir, userid) ==
    IF userid \in DOMAIN dir
    THEN [ok |-> TRUE, dir |-> [u \in (DOMAIN dir) \ {userid} |-> dir[u]], err |-> <<>>]
    ELSE [ok |-> FALSE, dir |-> dir, err |-> <<"delete", "user", "failed:", "no", "such", "user">>]

Request(verb, userid) == [verb |-> verb, userid |-> userid]

MutatingVerbs == {"POST /access/users", "pveum user add", "DELETE /access/users", "pveum user delete"}

Outcome(ok, error, sent, dir) == [ok |-> ok, error |-> error, sent |-> sent, dir |-> dir]

(***************************************************************************)
(* User directory operations of the two adapters                           *)
(***************************************************************************)
MinPasswordLen == 8

\* lib/proxmoxApi.js proxmoxCreateUser
CreateUserRest(dir, userid, fullName, password, accept) ==
    IF userid = <<>> THEN Outcome(FALSE, <<"Missing userid">>, <<>>, dir)
    ELSE IF password = <<>> \/ Len(password) < MinPasswordLen
         THEN Outcome(FALSE, <<"Password must be at least 8 characters">>, <<>>, dir)
    ELSE LET h == HostAddUser(dir, userid, EncodeComment(JsStr(fullName)), accept)
             r == ProxmoxRequest(h.ok, h.err)
         IN  Outcome(~r.rejected, r.message, <<Request("POST /access/users", userid)>>, h.dir)

\* the SSH adapter's proxmoxCreateUser
CreateUserSsh(dir, userid, fullName, password, accept) ==
    LET cmt == JSONStringifyComment(fullName, BeforeAt(userid))
        h == HostAddUser(dir, userid, cmt, accept)
        r == ExecSSH(ShellResult(IF h.ok THEN 0 ELSE 2, <<>>, h.err))
    IN  Outcome(~r.rejected, r.message, <<Request("pveum user add", userid)>>, h.dir)

ProxmoxCreateUser(adp, dir, userid, fullName, password, accept) ==
    IF adp = "rest" THEN CreateUserRest(dir, userid, fullName, password, accept)
    ELSE CreateUserSsh(dir, userid, fullName, password, accept)

\* proxmoxListUsers of either adapter: the users the host reports
ProxmoxListUsers(adp, dir) ==
    [users |-> {[userid |-> u, comment |-> dir[u]] : u \in DOMAIN dir},
     sent |-> <<Request(IF adp = "rest" THEN "GET /access/users" ELSE "pveum user list", <<>>)>>]

\* lib/proxmoxApi.js proxmoxDeleteUser
DeleteUserRest(dir, userid) ==
    IF userid = <<>> THEN Outcome(FALSE, <<"Missing userid">>, <<>>, dir)
    ELSE LET h == HostDeleteUser(dir, userid)
             r == ProxmoxRequest(h.ok, h.err)
         IN  Outcome(~r.rejected, r.message, <<Request("DELETE /access/users", userid)>>, h.dir)

\* the SSH adapter's proxmoxDeleteUser
DeleteUserSsh(dir, userid) ==
    LET h == HostDeleteUser(dir, userid)
        r == ExecSSH(ShellResult(IF h.ok THEN 0 ELSE 2, <<>>, h.err))
    IN  Outcome(~r.rejected, r.message, <<Request("pveum user delete", userid)>>, h.dir)

ProxmoxDeleteUser(adp, dir, userid) ==
    IF adp = "rest" THEN DeleteUserRest(dir, userid) ELSE DeleteUserSsh(dir, userid)

(***************************************************************************)
(* Direct calls of the user directory operations                           *)
(***************************************************************************)
RECURSIVE Rep(_, _)
Rep(c, n) == IF n = 0 THEN <<>> ELSE <<c>> \o Rep(c, n - 1)

Adapters == {"rest", "ssh"}

JDoe == <<"j", "d", "o", "e">>

CallUserIds == {<<>>, UserIdOf(JDoe), UserIdOf(JDoe \o <<"1">>)}

CallFullNames == {<<"J", "o", " ", "D", "o", "e">>}

\* passwords of MinPasswordLen - MaxShort .. MinPasswordLen + 1 characters, and none
MaxShort == 2

CallPasswords == {<<>>} \cup {Rep("p", n) : n \in (MinPasswordLen - MaxShort)..(MinPasswordLen + 1)}

InitialDirectories ==
    { [u \in S |-> <<"J">>] : S \in SUBSET {UserIdOf(JDoe), UserIdOf(JDoe \o <<"1">>)} }

NoCall ==
    [op |-> "none", userid |-> <<>>, password |-> <<>>, ok |-> FALSE, error |-> <<>>,
     sent |-> <<>>, listed |-> {}, before |-> {}]

UserIdle == adapter = "rest" /\ directory = <<>> /\ last = NoCall /\ prev = NoCall

UserInit ==
    /\ adapter \in Adapters
    /\ directory \in InitialDirectories
    /\ last = NoCall
    /\ prev = NoCall

CallCreateUser ==
    \E u \in CallUserIds, fn \in CallFullNames, pw \in CallPasswords, accept \in BOOLEAN :
        LET r == ProxmoxCreateUser(adapter, directory, u, fn, pw, accept)
        IN  /\ directory' = r.dir
            /\ prev' = last
            /\ last' = [op |-> "create", userid |-> u, password |-> pw, ok |-> r.ok,
                        error |-> r.error, sent |-> r.sent, listed |-> {},
                        before |-> DOMAIN directory]
            /\ UNCHANGED adapter

CallListUsers ==
    LET r == ProxmoxListUsers(adapter, directory)
    IN  /\ prev' = last
        /\ last' = [op |-> "list", userid |-> <<>>, password |-> <<>>, ok |-> TRUE,
                    error |-> <<>>, sent |-> r.sent, listed |-> {x.userid : x \in r.users},
                    before |-> DOMAIN directory]
        /\ UNCHANGED <<adapter, directory>>

CallDeleteUser ==
    \E u \in CallUserIds :
        LET r == ProxmoxDeleteUser(adapter, directory, u)
        IN  /\ directory' = r.dir
            /\ prev' = last
            /\ last' = [op |-> "delete", userid |-> u, password |-> <<>>, ok |-> r.ok,
                        error |-> r.error, sent |-> r.sent, listed |-> {},
                        before |-> DOMAIN directory]
            /\ UNCHANGED adapter

(***************************************************************************)
(* Bulk import: pages/api/proxmox/import-users                             *)
(***************************************************************************)
\* index of the first c in s, 0 if none
RECURSIVE IndexOf(_, _, _)
IndexOf(s, c, i) ==
    IF i > Len(s) THEN 0 ELSE IF s[i] = c THEN i ELSE IndexOf(s, c, i + 1)

\* String.prototype.split on a one-character separator
RECURSIVE Split(_, _)
Split(s, sep) ==
    LET i == IndexOf(s, sep, 1)
    IN  IF i = 0 THEN <<s>>
        ELSE <<SubSeq(s, 1, i - 1)>> \o Split(SubSeq(s, i + 1, Len(s)), sep)

TrimAll(ss) == [i \in 1..Len(ss) |-> Trim(ss[i])]

NonEmpty(s) == s # <<>>

\* obj[h] = cols[i] ?? '' for every header cell in turn: the last cell of a
\* repeated name wins
RowObject(header, cols) ==
    [h \in Range(header) |->
        LET i == CHOOSE k \in 1..Len(header) :
                     header[k] = h /\ \A m \in (k + 1)..Len(header) : header[m] # h
        IN  IF i <= Len(cols) THEN cols[i] ELSE <<>>]

\* row.name, '' standing for undefined too (every use tests it with ! or ||)
Field(row, name) == IF name \in DOMAIN row THEN row[name] ELSE <<>>

\* parseCsv
ParseCsv(text) ==
    LET lines == SelectSeq(TrimAll(Split(text, "\n")), NonEmpty)
    IN  IF lines = <<>> THEN [header |-> <<>>, rows |-> <<>>]
        ELSE LET header == TrimAll(Split(lines[1], ","))
             IN  [header |-> header,
                  rows |-> [i \in 1..(Len(lines) - 1) |->
                               RowObject(header, TrimAll(Split(lines[i + 1], ",")))]]

FirstName == <<"first_", "name">>
LastName  == <<"last_", "name">>
Password  == <<"password">>

RequiredColumns == <<FirstName, LastName, Password>>

\* a header check that forgets the password column
MissingColumnNamesOnly(header) ==
    LET miss == {i \in 1..2 : RequiredColumns[i] \notin Range(header)}
    IN  IF miss = {} THEN 0 ELSE CHOOSE i \in miss : \A j \in miss : i <= j

\* the first required column the header lacks, 0 if none
MissingColumn(header) ==
    LET miss == {i \in 1..Len(RequiredColumns) : RequiredColumns[i] \notin Range(header)}
    IN  IF miss = {} THEN 0 ELSE CHOOSE i \in miss : \A j \in miss : i <= j

LowerCase(c) == CASE c = "J" -> "j" [] c = "D" -> "d" [] OTHER -> c

Digits == <<"0", "1", "2", "3", "4", "5", "6", "7", "8", "9">>

LowerAlnum == {"a", "d", "e", "j", "o", "p"} \cup Range(Digits)

IsLowerAlnum(c) == c \in LowerAlnum

\* normalize: toLowerCase, trim, drop what is not [a-z0-9]
Normalize(s) == SelectSeq(Trim([i \in 1..Len(s) |-> LowerCase(s[i])]), IsLowerAlnum)

\* buildBaseUsername
BuildBaseUsername(firstName, lastName) ==
    LET f == Normalize(firstName)
        l == Normalize(lastName)
    IN  IF f = <<>> \/ l = <<>> THEN <<>> ELSE <<f[1]>> \o l

\* the decimal digits of n >= 0
RECURSIVE Decimal(_)
Decimal(n) ==
    IF n < 10 THEN <<Digits[n + 1]>> ELSE Decimal(n \div 10) \o <<Digits[(n % 10) + 1]>>

\* a collision loop that tries the suffix 1 and stops
UniquifyOnce(base, username, counter, ids) ==
    IF UserIdOf(username) \in ids THEN base \o <<"1">> ELSE username

\* while (existingIds.has(`${username}@${realm}`)) username = `${base}${counter++}`
RECURSIVE Uniquify(_, _, _, _)
Uniquify(base, username, counter, ids) ==
    IF UserIdOf(username) \in ids
    THEN Uniquify(base, base \o Decimal(counter), counter + 1, ids)
    ELSE username

RowResult(ok, userid, fullName, error) ==
    [ok |-> ok, userid |-> userid, fullName |-> fullName, error |-> error]

RowOutcome(push, ids, dir, sent, refusal) ==
    [push |-> push, ids |-> ids, dir |-> dir, sent |-> sent, refusal |-> refusal]

Rejected(error, ids, dir) ==
    RowOutcome(<<RowResult(FALSE, <<>>, <<>>, error)>>, ids, dir, <<>>, FALSE)

\* the row's part of the loop after validation: pick the identifier, create
CreateForRow(adp, dir, ids, firstName, lastName, password, base, accept) ==
    LET userid == UserIdOf(Uniquify(base, base, 1, ids))
        fullName == firstName \o <<" ">> \o lastName
        r == ProxmoxCreateUser(adp, dir, userid, fullName, password, accept)
        refusal == ~r.ok /\ userid \notin DOMAIN dir
    IN  IF r.ok
        THEN RowOutcome(<<RowResult(TRUE, userid, fullName, <<>>)>>,
                        ids \cup {userid}, r.dir, r.sent, refusal)
        ELSE RowOutcome(<<RowResult(FALSE, userid, <<>>, r.error)>>,
                        ids, r.dir, r.sent, refusal)

\* a loop body that forgets a successful identifier
ProcessRowForgetful(adp, dir, ids, row, accept) ==
    LET firstName == Field(row, FirstName)
        lastName == Field(row, LastName)
        password == Trim(Field(row, Password))
        base == BuildBaseUsername(firstName, lastName)
        o == CreateForRow(adp, dir, ids, firstName, lastName, password, base, accept)
    IN  IF firstName = <<>> \/ lastName = <<>>
        THEN Rejected(<<"Missing first_name or last_name">>, ids, dir)
        ELSE IF password = <<>> \/ Len(password) < MinPasswordLen
             THEN Rejected(<<"Password must be at least 8 characters">>, ids, dir)
        ELSE IF base = <<>> THEN Rejected(<<"Invalid name values">>, ids, dir)
        ELSE [o EXCEPT !.ids = ids]

\* a loop body that skips a short password without a result
ProcessRowSilent(adp, dir, ids, row, accept) ==
    LET firstName == Field(row, FirstName)
        lastName == Field(row, LastName)
        password == Trim(Field(row, Password))
        base == BuildBaseUsername(firstName, lastName)
    IN  IF firstName = <<>> \/ lastName = <<>>
        THEN Rejected(<<"Missing first_name or last_name">>, ids, dir)
        ELSE IF password = <<>> \/ Len(password) < MinPasswordLen
             THEN RowOutcome(<<>>, ids, dir, <<>>, FALSE)
        ELSE IF base = <<>> THEN Rejected(<<"Invalid name values">>, ids, dir)
        ELSE CreateForRow(adp, dir, ids, firstName, lastName, password, base, accept)

\* the body of the handler's loop for one row
ProcessRow(adp, dir, ids, row, accept) ==
    LET firstName == Field(row, FirstName)
        lastName == Field(row, LastName)
        password == Trim(Field(row, Password))
        base == BuildBaseUsername(firstName, lastName)
    IN  IF firstName = <<>> \/ lastName = <<>>
        THEN Rejected(<<"Missing first_name or last_name">>, ids, dir)
        ELSE IF password = <<>> \/ Len(password) < MinPasswordLen
             THEN Rejected(<<"Password must be at least 8 characters">>, ids, dir)
        ELSE IF base = <<>> THEN Rejected(<<"Invalid name values">>, ids, dir)
        ELSE CreateForRow(adp, dir, ids, firstName, lastName, password, base, accept)

NoResponse == [status |-> 0, error |-> <<>>, total |-> 0, success |-> 0, failed |-> 0,
               results |-> <<>>]

\* results.filter((r) => r.ok).length
CountOk(rs) == Cardinality({i \in 1..Len(rs) : rs[i].ok})

\* the handler up to the loop: parse, check the header, list the users
ImportBegin ==
    /\ ipc = "idle"
    /\ LET parsed == ParseCsv(csv)
           miss == MissingColumn(parsed.header)
           listing == ProxmoxListUsers(adapter, directory)
       IN  IF miss # 0
           THEN /\ response' = [NoResponse EXCEPT !.status = 400,
                                   !.error = <<"CSV missing column:">> \o RequiredColumns[miss]]
                /\ ipc' = "done"
                /\ UNCHANGED <<rows, rowIx, existingIds, results, requests, startIds>>
           ELSE /\ rows' = parsed.rows
                /\ rowIx' = 1
                /\ existingIds' = {u.userid : u \in listing.users}
                /\ startIds' = {u.userid : u \in listing.users}
                /\ results' = <<>>
                /\ requests' = listing.sent
                /\ ipc' = "rows"
                /\ UNCHANGED response
    /\ UNCHANGED <<csv, refused, adapter, directory>>

\* a loop that gives up at the first row that did not succeed
ImportRowAbort ==
    /\ ipc = "rows"
    /\ rowIx <= Len(rows)
    /\ \E accept \in BOOLEAN :
          LET o == ProcessRow(adapter, directory, existingIds, rows[rowIx], accept)
              stop == \E k \in 1..Len(o.push) : ~o.push[k].ok
          IN  /\ results' = results \o o.push
              /\ existingIds' = o.ids
              /\ directory' = o.dir
              /\ requests' = requests \o o.sent
              /\ refused' = (refused \/ o.refusal)
              /\ rowIx' = IF stop THEN Len(rows) + 1 ELSE rowIx + 1
    /\ UNCHANGED <<csv, ipc, rows, response, startIds, adapter>>

\* one turn of for (const row of rows)
ImportRow ==
    /\ ipc = "rows"
    /\ rowIx <= Len(rows)
    /\ \E accept \in BOOLEAN :
          LET o == ProcessRow(adapter, directory, existingIds, rows[rowIx], accept)
          IN  /\ results' = results \o o.push
              /\ existingIds' = o.ids
              /\ directory' = o.dir
              /\ requests' = requests \o o.sent
              /\ refused' = (refused \/ o.refusal)
    /\ rowIx' = rowIx + 1
    /\ UNCHANGED <<csv, ipc, rows, response, startIds, adapter>>

\* after the loop: the counts and the 200 response
ImportRespond ==
    /\ ipc = "rows"
    /\ rowIx > Len(rows)
    /\ LET success == CountOk(results)
       IN  response' = [status |-> 200, error |-> <<>>, total |-> Len(results),
                        success |-> success, failed |-> Len(results) - success,
                        results |-> results]
    /\ ipc' = "done"
    /\ UNCHANGED <<csv, rows, rowIx, existingIds, results, requests, startIds, refused,
                   adapter, directory>>

(***************************************************************************)
(* Requests to the bulk import: an optional header line and up to MaxRows  *)
(* further lines.                                                          *)
(***************************************************************************)
MaxRows == 3

RECURSIVE JoinLines(_)
JoinLines(ls) ==
    IF ls = <<>> THEN <<>>
    ELSE IF Len(ls) = 1 THEN ls[1]
    ELSE ls[1] \o <<"\n">> \o JoinLines(Tail(ls))

Pw(n) == Rep("p", n)

Line(a, b, c) == a \o <<",">> \o b \o <<",">> \o c

HeaderLines ==
    { FirstName \o <<",">> \o LastName \o <<",">> \o Password,
      <<" ">> \o Password \o <<" ", ",">> \o FirstName \o <<",">> \o LastName \o <<",", "email">>,
      FirstName \o <<",">> \o LastName,
      LastName \o <<",">> \o Password \o <<",">> \o Password }

DataLines ==
    { Line(<<"J", "o">>, <<"D", "o", "e">>, Pw(MinPasswordLen)),
      Line(<<"J", "a">>, <<" ", "D", "o", "e">>, <<" ">> \o Pw(MinPasswordLen + 1) \o <<" ">>),
      Line(<<"J", "o">>, <<"D", "o", "e", "1">>, Pw(MinPasswordLen)),
      Line(<<"J", "o">>, <<"D", "o", "e">>, <<" ">> \o Pw(MinPasswordLen - 1) \o <<" ">>),
      Line(<<>>, <<"D", "o", "e">>, Pw(MinPasswordLen)),
      Line(<<"-">>, <<"D", "o", "e">>, Pw(MinPasswordLen)),
      <<" ">> }

CsvInputs ==
    LET bodies == SeqsUpTo(DataLines, MaxRows)
    IN  {JoinLines(b) : b \in bodies} \cup {JoinLines(<<h>> \o b) : h \in HeaderLines, b \in bodies}

ImportIdle ==
    /\ csv = <<>> /\ ipc = "off" /\ rows = <<>> /\ rowIx = 0 /\ existingIds = {}
    /\ results = <<>> /\ requests = <<>> /\ response = NoResponse /\ startIds = {}
    /\ refused = FALSE

ImportInit ==
    /\ csv \in CsvInputs
    /\ ipc = "idle" /\ rows = <<>> /\ rowIx = 0 /\ existingIds = {}
    /\ results = <<>> /\ requests = <<>> /\ response = NoResponse /\ startIds = {}
    /\ refused = FALSE
    /\ adapter \in Adapters
    /\ directory \in InitialDirectories
    /\ last = NoCall /\ prev = NoCall

(***************************************************************************)
(* The host's VMs and the qm commands.  A command gives a ShellResult and  *)
(* the VMs after it; hostOk = FALSE is the host failing a command for a    *)
(* reason of its own (a lock, the storage).                                *)
(***************************************************************************)
HostAnswer(res, v) == [res |-> res, vms |-> v]

NoSuchVm == <<"Configuration", "file", "does", "not", "exist">>

WithVm(v, id, rec) == [x \in (DOMAIN v) \cup {id} |-> IF x = id THEN rec ELSE v[x]]

WithoutVm(v, id) == [x \in (DOMAIN v) \ {id} |-> v[x]]

\* a VM as qm list and qm status show it: a VM that was never started is stopped
ShownStatus(vm) == IF vm.status = "running" THEN "running" ELSE "stopped"

\* test -f "${diskPath}": exit code 1 and no output when the file is missing
HostTestFile(files, vmName) == ShellResult(IF vmName \in files THEN 0 ELSE 1, <<>>, <<>>)

\* qm status <vmid>
HostQmStatus(v, id) ==
    IF id \in DOMAIN v THEN ShellResult(0, <<"status:", ShownStatus(v[id])>>, <<>>)
    ELSE ShellResult(2, <<>>, NoSuchVm)

\* what qm config <vmid> prints
ConfigText(vm) ==
    <<"cores:", "2", "\n", "description:">> \o vm.desc
    \o <<"\n", "memory:", "2048", "\n", "name:">> \o vm.name
    \o <<"\n", "net0:", "virtio=", "BC:24:11:00:00:01", ",", "bridge=", "vmbr1">>

HostQmConfig(v, id) ==
    IF id \in DOMAIN v THEN ShellResult(0, ConfigText(v[id]), <<>>)
    ELSE ShellResult(2, <<>>, NoSuchVm)

\* qm create <vmid> --name ...
HostQmCreate(v, id, name, by, hostOk) ==
    IF id \in DOMAIN v
    THEN HostAnswer(ShellResult(2, <<>>, <<"unable", "to", "create", "VM", "-", "already", "exists">>), v)
    ELSE IF ~hostOk
    THEN HostAnswer(ShellResult(2, <<>>, <<"unable", "to", "create", "VM">>), v)
    ELSE HostAnswer(ShellResult(0, <<>>, <<>>),
                    WithVm(v, id, [status |-> "provisioning", disk |-> FALSE, name |-> name,
                                   desc |-> <<>>, by |-> by]))

\* qm importdisk <vmid> <diskPath> local-lvm
HostQmImportDisk(v, files, id, vmName, hostOk) ==
    IF id \notin DOMAIN v THEN HostAnswer(ShellResult(2, <<>>, NoSuchVm), v)
    ELSE IF vmName \notin files
    THEN HostAnswer(ShellResult(2, <<>>, <<"disk", "image", "does", "not", "exist">>), v)
    ELSE IF ~hostOk
    THEN HostAnswer(ShellResult(2, <<>>, <<"import", "failed">>), v)
    ELSE HostAnswer(ShellResult(0, <<"Successfully", "imported", "disk">>, <<>>),
                    WithVm(v, id, [v[id] EXCEPT !.disk = TRUE]))

\* qm set <vmid> --option value
HostQmSet(v, id, hostOk) ==
    IF id \notin DOMAIN v THEN HostAnswer(ShellResult(2, <<>>, NoSuchVm), v)
    ELSE IF ~hostOk THEN HostAnswer(ShellResult(2, <<>>, <<"can't", "lock", "file">>), v)
    ELSE HostAnswer(ShellResult(0, <<"update", "VM">>, <<>>), v)

\* qm set <vmid> --description '...'
HostQmSetDescription(v, id, desc, hostOk) ==
    LET a == HostQmSet(v, id, hostOk)
    IN  IF a.res.code # 0 THEN a
        ELSE HostAnswer(a.res, WithVm(v, id, [v[id] EXCEPT !.desc = desc]))

\* qm start <vmid>
HostQmStart(v, id, hostOk) ==
    IF id \notin DOMAIN v THEN HostAnswer(ShellResult(2, <<>>, NoSuchVm), v)
    ELSE IF ~hostOk THEN HostAnswer(ShellResult(2, <<>>, <<"start", "failed">>), v)
    ELSE HostAnswer(ShellResult(0, <<>>, <<>>), WithVm(v, id, [v[id] EXCEPT !.status = "running"]))

\* qm stop <vmid>
HostQmStop(v, id, hostOk) ==
    IF id \notin DOMAIN v THEN HostAnswer(ShellResult(2, <<>>, NoSuchVm), v)
    ELSE IF ~hostOk THEN HostAnswer(ShellResult(2, <<>>, <<"can't", "lock", "file">>), v)
    ELSE HostAnswer(ShellResult(0, <<>>, <<>>),
                    WithVm(v, id, [v[id] EXCEPT !.status =
                                      IF @ = "running" THEN "stopped" ELSE @]))

\* qm destroy <vmid> --purge: refused while the VM runs
HostQmDestroy(v, id, hostOk) ==
    IF id \notin DOMAIN v THEN HostAnswer(ShellResult(2, <<>>, NoSuchVm), v)
    ELSE IF v[id].status = "running"
    THEN HostAnswer(ShellResult(2, <<>>, <<"VM", "is", "running", "-", "destroy", "failed">>), v)
    ELSE IF ~hostOk THEN HostAnswer(ShellResult(2, <<>>, <<"can't", "lock", "file">>), v)
    ELSE HostAnswer(ShellResult(0, <<>>, <<>>), WithoutVm(v, id))

(***************************************************************************)
(* deployVM, one action for each await                                     *)
(***************************************************************************)
MinStart == 2000

StartSpan == 8000

MaxProbes == 100

MaxPolls == 12

\* setTimeout(resolve, 5000) before each polling attempt, in milliseconds
PollWait == 5000

\* SESSION_TIMEOUT = 2 * 60 * 60 * 1000
SessionTimeout == 7200000

\* new Date(ms).toISOString(), ms counted from the call's first clock read:
\* a text that differs for different milliseconds
Iso(ms) == <<"T+", ToString(ms), "ms">>

Cmd(op, id) == [op |-> op, vmid |-> id]

\* `${vmName}-${username}`
DisplayName(vmName, username) == vmName \o <<"-">> \o username

\* JSON.stringify({ username, vmName, deployedAt, expiresAt })
MetadataText(username, vmName, deployedAt, expiresAt) ==
    <<"{">> \o JsonString(<<"username">>) \o <<":">> \o JsonString(username) \o <<",">>
    \o JsonString(<<"vmName">>) \o <<":">> \o JsonString(vmName) \o <<",">>
    \o JsonString(<<"deployedAt">>) \o <<":">> \o JsonString(deployedAt) \o <<",">>
    \o JsonString(<<"expiresAt">>) \o <<":">> \o JsonString(expiresAt) \o <<"}">>

DeployCallers == {"d1", "d2"}

IdleDeploy ==
    [pc |-> "idle", vmName |-> <<>>, username |-> <<>>, start |-> 0, vmid |-> 0,
     attempts |-> 0, polls |-> 0, ip |-> <<>>, error |-> <<>>, failedAt |-> "",
     issued |-> <<>>, probedFree |-> {}, probedBusy |-> {}, created |-> FALSE,
     existedBefore |-> {}, cleanupOk |-> FALSE, leftBehind |-> FALSE,
     calls |-> 0, budget |-> 0,
     clock |-> 0, deployedAt |-> 0, startTime |-> <<>>, expiresAt |-> <<>>]

\* a step of the try block threw: remember the error, go to the catch clause
Thrown(d, at, message, cmd) ==
    [d EXCEPT !.pc = "cleanup", !.error = message, !.failedAt = at,
              !.issued = @ \o <<cmd>>]

\* a step of the try block passed
Passed(d, next, cmd) == [d EXCEPT !.pc = next, !.issued = @ \o <<cmd>>]

VmNames == {<<"k">>, <<"g">>}

VmUsers == {<<"j", "d">>, <<"j", "d", "1">>}

\* 2000 + Math.floor(Math.random() * 8000): the least and the greatest
StartValues == {MinStart, MinStart + StartSpan - 1}

\* deployVM up to the first probe: the template check and the random start
DeployBegin(c) ==
    /\ dp[c].pc \in {"idle", "done", "failed"}
    /\ dp[c].calls < dp[c].budget
    /\ \E vmName \in VmNames, username \in VmUsers, start \in StartValues :
          LET r == ExecSSH(HostTestFile(diskFiles, vmName))
              d == [IdleDeploy EXCEPT !.vmName = vmName, !.username = username,
                                      !.calls = dp[c].calls + 1,
                                      !.budget = dp[c].budget,
                                      !.existedBefore = DOMAIN vms,
                                      !.issued = <<Cmd("test -f", 0)>>]
          IN  dp' = [dp EXCEPT ![c] =
                        IF r.rejected
                        THEN [d EXCEPT !.pc = "failed", !.failedAt = "template",
                                       !.error = <<"Template", "not", "found">>]
                        ELSE [d EXCEPT !.pc = "probe", !.start = start, !.vmid = start]]
    /\ UNCHANGED <<vms, diskFiles, sp>>

\* one turn of while (attempts < 100): qm status ${vmid} 2>/dev/null
DeployProbe(c) ==
    /\ dp[c].pc = "probe"
    /\ LET d == dp[c]
           r == ExecSSH(ErrToNull(HostQmStatus(vms, d.vmid)))
           seen == IF d.vmid \in DOMAIN vms
                   THEN [d EXCEPT !.probedBusy = @ \cup {d.vmid}]
                   ELSE [d EXCEPT !.probedFree = @ \cup {d.vmid}]
       IN  dp' = [dp EXCEPT ![c] =
                     IF r.rejected
                     THEN [seen EXCEPT !.pc = "create"]
                     ELSE [seen EXCEPT !.vmid = d.vmid + 1, !.attempts = d.attempts + 1,
                                       !.pc = IF d.attempts + 1 < MaxProbes
                                              THEN "probe" ELSE "create"]]
    /\ UNCHANGED <<vms, diskFiles, sp>>

\* qm create ${vmid} --name ... --net0 virtio,bridge=vmbr1
DeployCreate(c) ==
    /\ dp[c].pc = "create"
    /\ \E hostOk \in BOOLEAN :
          LET d == dp[c]
              a == HostQmCreate(vms, d.vmid, DisplayName(d.vmName, d.username), c, hostOk)
              r == ExecSSH(a.res)
          IN  /\ vms' = a.vms
              /\ dp' = [dp EXCEPT ![c] =
                           IF r.rejected
                           THEN Thrown(d, "create", r.message, Cmd("qm create", d.vmid))
                           ELSE Passed([d EXCEPT !.created = TRUE], "import",
                                       Cmd("qm create", d.vmid))]
    /\ UNCHANGED <<diskFiles, sp>>

\* qm importdisk ${vmid} "${diskPath}" local-lvm
DeployImportDisk(c) ==
    /\ dp[c].pc = "import"
    /\ \E hostOk \in BOOLEAN :
          LET d == dp[c]
              a == HostQmImportDisk(vms, diskFiles, d.vmid, d.vmName, hostOk)
              r == ExecSSH(a.res)
          IN  /\ vms' = a.vms
              /\ dp' = [dp EXCEPT ![c] =
                           IF r.rejected
                           THEN Thrown(d, "import", r.message, Cmd("qm importdisk", d.vmid))
                           ELSE Passed(d, "scsi", Cmd("qm importdisk", d.vmid))]
    /\ UNCHANGED <<diskFiles, sp>>

\* one of the three qm set calls that configure the boot disk and the display
DeploySet(c, at, next) ==
    /\ dp[c].pc = at
    /\ \E hostOk \in BOOLEAN :
          LET d == dp[c]
              a == HostQmSet(vms, d.vmid, hostOk)
              r == ExecSSH(a.res)
          IN  /\ vms' = a.vms
              /\ dp' = [dp EXCEPT ![c] =
                           IF r.rejected
                           THEN Thrown(d, at, r.message, Cmd("qm set", d.vmid))
                           ELSE Passed(d, next, Cmd("qm set", d.vmid))]
    /\ UNCHANGED <<diskFiles, sp>>

\* qm set ${vmid} --scsihw virtio-scsi-pci --scsi0 local-lvm:vm-${vmid}-disk-0
DeploySetScsi(c) == DeploySet(c, "scsi", "boot")

\* qm set ${vmid} --boot order=scsi0
DeploySetBoot(c) == DeploySet(c, "boot", "vga")

\* qm set ${vmid} --vga std
DeploySetVga(c) == DeploySet(c, "vga", "describe")

\* qm set ${vmid} --description '<metadata>'
DeployDescribe(c) ==
    /\ dp[c].pc = "describe"
    /\ \E hostOk \in BOOLEAN :
          LET d == dp[c]
              metadata == MetadataText(d.username, d.vmName, Iso(d.clock),
                                       Iso(d.clock + SessionTimeout))
              a == HostQmSetDescription(vms, d.vmid, metadata, hostOk)
              r == ExecSSH(a.res)
          IN  /\ vms' = a.vms
              /\ dp' = [dp EXCEPT ![c] =
                           IF r.rejected
                           THEN Thrown(d, "describe", r.message, Cmd("qm set", d.vmid))
                           ELSE Passed([d EXCEPT !.deployedAt = d.clock], "start",
                                       Cmd("qm set", d.vmid))]
    /\ UNCHANGED <<diskFiles, sp>>

\* qm start ${vmid}
DeployStartVm(c) ==
    /\ dp[c].pc = "start"
    /\ \E hostOk \in BOOLEAN :
          LET d == dp[c]
              a == HostQmStart(vms, d.vmid, hostOk)
              r == ExecSSH(a.res)
          IN  /\ vms' = a.vms
              /\ dp' = [dp EXCEPT ![c] =
                           IF r.rejected
                           THEN Thrown(d, "start", r.message, Cmd("qm start", d.vmid))
                           ELSE Passed(d, "poll", Cmd("qm start", d.vmid))]
    /\ UNCHANGED <<diskFiles, sp>>

Pending == <<"Waiting for network... Check Proxmox console">>

\* return { vmid, name, ipAddress, startTime, expiresAt }: both times are
\* read from the clock at the return
Returned(d, ip) ==
    [d EXCEPT !.pc = "done", !.ip = ip, !.startTime = Iso(d.clock),
              !.expiresAt = Iso(d.clock + SessionTimeout)]

\* a polling loop that throws when its attempts are used up
DeployPollGiveUp(c) ==
    /\ dp[c].pc = "poll"
    /\ \E inArp \in BOOLEAN :
          LET cfg == ExecSSH(HostQmConfig(vms, dp[c].vmid))
              macMatch == ~cfg.rejected /\ \E i \in 1..(Len(cfg.out) - 1) : cfg.out[i] = "virtio="
              arp == ExecSSH(OrTrue(ShellResult(IF inArp THEN 0 ELSE 1,
                                               IF inArp THEN <<"10.0.0.5">> ELSE <<>>, <<>>)))
              ipMatch == macMatch /\ ~arp.rejected /\ arp.out # <<>>
              sent == <<Cmd("qm config", dp[c].vmid)>> \o
                      (IF macMatch THEN <<Cmd("arp -n", dp[c].vmid)>> ELSE <<>>)
              d == [dp[c] EXCEPT !.clock = @ + PollWait, !.polls = @ + 1, !.issued = @ \o sent]
          IN  dp' = [dp EXCEPT ![c] =
                        IF ipMatch THEN Returned(d, arp.out)
                        ELSE IF d.polls < MaxPolls THEN d
                        ELSE [d EXCEPT !.pc = "cleanup", !.failedAt = "poll",
                                       !.error = <<"no", "address">>]]
    /\ UNCHANGED <<vms, diskFiles, sp>>

\* one turn of for (i < 12): the 5 s wait, qm config, the MAC, the ARP table;
\* inArp is whether the host's ARP table holds the MAC by now.  After the
\* last turn, or at the first address found, deployVM returns.  The clock
\* counts the waits only, the least the real clock can have advanced.
DeployPoll(c) ==
    /\ dp[c].pc = "poll"
    /\ \E inArp \in BOOLEAN :
          LET cfg == ExecSSH(HostQmConfig(vms, dp[c].vmid))
              macMatch == ~cfg.rejected /\ \E i \in 1..(Len(cfg.out) - 1) : cfg.out[i] = "virtio="
              arp == ExecSSH(OrTrue(ShellResult(IF inArp THEN 0 ELSE 1,
                                               IF inArp THEN <<"10.0.0.5">> ELSE <<>>, <<>>)))
              ipMatch == macMatch /\ ~arp.rejected /\ arp.out # <<>>
              sent == <<Cmd("qm config", dp[c].vmid)>> \o
                      (IF macMatch THEN <<Cmd("arp -n", dp[c].vmid)>> ELSE <<>>)
              d == [dp[c] EXCEPT !.clock = @ + PollWait, !.polls = @ + 1, !.issued = @ \o sent]
          IN  dp' = [dp EXCEPT ![c] =
                        IF ipMatch THEN Returned(d, arp.out)
                        ELSE IF d.polls < MaxPolls THEN d
                        ELSE Returned(d, Pending)]
    /\ UNCHANGED <<vms, diskFiles, sp>>

\* a catch clause that rethrows without the destroy
DeployCleanupNoDestroy(c) ==
    /\ dp[c].pc = "cleanup"
    /\ dp' = [dp EXCEPT ![c] = [@ EXCEPT !.pc = "failed",
                                         !.leftBehind = dp[c].vmid \in DOMAIN vms]]
    /\ UNCHANGED <<vms, diskFiles, sp>>

\* the catch clause: qm destroy ${vmid} --purge 2>/dev/null || true, whose own
\* failure is swallowed, then throw error
DeployCleanup(c) ==
    /\ dp[c].pc = "cleanup"
    /\ \E hostOk \in BOOLEAN :
          LET d == dp[c]
              a == HostQmDestroy(vms, d.vmid, hostOk)
              r == ExecSSH(OrTrue(ErrToNull(a.res)))
          IN  /\ vms' = a.vms
              /\ dp' = [dp EXCEPT ![c] =
                           [d EXCEPT !.pc = "failed",
                                     !.issued = @ \o <<Cmd("qm destroy", d.vmid)>>,
                                     !.cleanupOk = (a.res.code = 0),
                                     !.leftBehind = d.vmid \in DOMAIN a.vms]]
    /\ UNCHANGED <<diskFiles, sp>>

(***************************************************************************)
(* stopVM, one action for each await                                       *)
(***************************************************************************)
StopVmids == {MinStart + MaxProbes, 3000}

IdleStop ==
    [pc |-> "idle", vmid |-> 0, username |-> <<>>, ok |-> FALSE, message |-> <<>>,
     error |-> <<>>, issued |-> <<>>, existed |-> FALSE, repeated |-> FALSE]

NotYours == <<"VM", "does", "not", "belong", "to", "you">>

AlreadyDeleted == <<"VM", "already", "deleted">>

StoppedAndRemoved == <<"VM", "stopped", "and", "removed">>

\* a catch block that rethrows every error, the missing VM's included
StopCatchRethrow(s, message) == [s EXCEPT !.pc = "failed", !.error = message]

\* catch (e): 'does not exist' in the message is an idempotent success
StopCatch(s, message) ==
    IF Includes(message, <<"does", "not", "exist">>)
    THEN [s EXCEPT !.pc = "done", !.ok = TRUE, !.message = AlreadyDeleted]
    ELSE [s EXCEPT !.pc = "failed", !.error = message]

\* stopVM up to the ownership check: qm config ${vmid}, config.includes(username)
StopBegin ==
    /\ sp.pc \in {"idle", "done", "failed"}
    /\ \E id \in StopVmids, u \in VmUsers :
          LET r == ExecSSH(HostQmConfig(vms, id))
              s == [IdleStop EXCEPT !.vmid = id, !.username = u,
                                    !.existed = id \in DOMAIN vms,
                                    !.repeated = (sp.pc = "done" /\ sp.vmid = id
                                                  /\ sp.message = AlreadyDeleted),
                                    !.issued = <<Cmd("qm config", id)>>]
          IN  sp' = IF r.rejected THEN StopCatch(s, r.message)
                    ELSE IF ~Includes(r.out, u) THEN StopCatch(s, NotYours)
                    ELSE [s EXCEPT !.pc = "stop"]
    /\ UNCHANGED <<vms, diskFiles, dp>>

\* qm stop ${vmid} 2>/dev/null || true, any failure swallowed
StopStop ==
    /\ sp.pc = "stop"
    /\ \E hostOk \in BOOLEAN :
          LET a == HostQmStop(vms, sp.vmid, hostOk)
              r == ExecSSH(OrTrue(ErrToNull(a.res)))
          IN  /\ vms' = a.vms
              /\ sp' = [sp EXCEPT !.pc = "destroy", !.issued = @ \o <<Cmd("qm stop", sp.vmid)>>]
    /\ UNCHANGED <<diskFiles, dp>>

\* qm destroy ${vmid} --purge
StopDestroy ==
    /\ sp.pc = "destroy"
    /\ \E hostOk \in BOOLEAN :
          LET a == HostQmDestroy(vms, sp.vmid, hostOk)
              r == ExecSSH(a.res)
              s == [sp EXCEPT !.issued = @ \o <<Cmd("qm destroy", sp.vmid)>>]
          IN  /\ vms' = a.vms
              /\ sp' = IF r.rejected
                        THEN [s EXCEPT !.pc = "failed", !.error = r.message]
                        ELSE [s EXCEPT !.pc = "done", !.ok = TRUE, !.message = StoppedAndRemoved]
    /\ UNCHANGED <<diskFiles, dp>>

(***************************************************************************)
(* getVMStatus                                                             *)
(***************************************************************************)
\* the tokens of text from position i up to the end of the line
RECURSIVE RestOfLine(_, _)
RestOfLine(text, i) ==
    IF i > Len(text) \/ text[i] = "\n" THEN <<>> ELSE <<text[i]>> \o RestOfLine(text, i + 1)

\* configOutput.match(/description: (.+)/): the rest of the first matching
\* line, or no match
DescMatch(config) ==
    LET at == {i \in 1..Len(config) : config[i] = "description:" /\ RestOfLine(config, i + 1) # <<>>}
    IN  IF at = {} THEN [matched |-> FALSE, text |-> <<>>]
        ELSE [matched |-> TRUE,
              text |-> RestOfLine(config, (CHOOSE i \in at : \A j \in at : i <= j) + 1)]

\* getVMStatus: qm status, qm config, the metadata spread into the answer
GetVMStatus(v, id) ==
    LET statusOutput == ExecSSH(HostQmStatus(v, id))
        configOutput == ExecSSH(HostQmConfig(v, id))
        descMatch == DescMatch(configOutput.out)
        parsed == IF descMatch.matched THEN JSONParse(descMatch.text) ELSE ParseFail
        metadata == IF parsed.ok THEN parsed.val ELSE JsObj(NoFields)
    IN  IF statusOutput.rejected \/ configOutput.rejected
        THEN [found |-> FALSE, status |-> "", deployedAt |-> JsUndefined,
              expiresAt |-> JsUndefined, username |-> JsUndefined]
        ELSE [found |-> TRUE,
              status |-> IF Includes(statusOutput.out, <<"running">>) THEN "running" ELSE "stopped",
              deployedAt |-> GetProp(metadata, <<"deployedAt">>).val,
              expiresAt |-> GetProp(metadata, <<"expiresAt">>).val,
              username |-> GetProp(metadata, <<"username">>).val]

(***************************************************************************)
(* The host at the start: the template k has its disk file, g has none;    *)
(* VM 2000 runs, VM 2100 is stopped, or either is absent.                  *)
(***************************************************************************)
MaxDeployCalls == 1

OldVm(status, owner, vmName) ==
    [status |-> status, disk |-> TRUE, name |-> DisplayName(vmName, owner),
     desc |-> MetadataText(owner, vmName, Iso(0), Iso(SessionTimeout)), by |-> "earlier"]

OldVms ==
    (MinStart :> OldVm("running", <<"j", "d">>, <<"k">>))
    @@ ((MinStart + MaxProbes) :> OldVm("stopped", <<"j", "d", "1">>, <<"k">>))

InitialVms == {[id \in S |-> OldVms[id]] : S \in SUBSET (DOMAIN OldVms)}

VmIdle ==
    /\ vms = <<>> /\ diskFiles = {}
    /\ dp = [c \in DeployCallers |-> IdleDeploy]
    /\ sp = IdleStop

VmInit ==
    /\ vms \in InitialVms
    /\ diskFiles = {<<"k">>}
    /\ dp = [c \in DeployCallers |->
                [IdleDeploy EXCEPT !.budget = IF c = "d1" THEN MaxDeployCalls ELSE 0]]
    /\ sp = IdleStop

\* a host whose identifiers 2000..2099 are all taken, with or without 2100
FullBlock ==
    [id \in MinStart..(MinStart + MaxProbes - 1) |-> OldVm("stopped", <<"j", "d">>, <<"k">>)]

FullHosts ==
    {FullBlock, FullBlock @@ ((MinStart + MaxProbes) :> OldVms[MinStart + MaxProbes])}

\* one caller deploys, on any of the hosts above
DeployAloneInit ==
    /\ vms \in InitialVms \cup FullHosts
    /\ diskFiles = {<<"k">>}
    /\ dp = [c \in DeployCallers |->
                [IdleDeploy EXCEPT !.budget = IF c = "d1" THEN MaxDeployCalls ELSE 0]]
    /\ sp = IdleStop

\* two callers deploy while the identifier both will reach is free
RaceInit ==
    /\ vms \in {v \in InitialVms : (MinStart + MaxProbes) \notin DOMAIN v}
    /\ diskFiles = {<<"k">>}
    /\ dp = [c \in DeployCallers |-> [IdleDeploy EXCEPT !.budget = MaxDeployCalls]]
    /\ sp = IdleStop

\* a call of the race: the template k, Math.random() giving the least start
RaceBegin(c) ==
    /\ DeployBegin(c)
    /\ dp'[c].vmName = <<"k">>
    /\ dp'[c].start = MinStart

(***************************************************************************)
(* Properties of the comment codecs                                        *)
(***************************************************************************)
IsEmptyRecord(r) == r.email = EmptyStr /\ r.fullName = EmptyStr

MissingComment(c) == Falsy(c)

\* c is a text the REST adapter's encodeComment never produces
NotRestEncoding(c) == c.k = "str" /\ c.v # EncodeComment(c)

\* c is a text JSON.stringify({fullName, email}) never produces
NotSshEncoding(c) ==
    /\ c.k = "str"
    /\ LET p == JSONParse(c.v)
       IN  ~ /\ p.ok
             /\ p.val.k = "obj"
             /\ DOMAIN p.val.f = {<<"email">>, <<"fullName">>}
             /\ p.val.f[<<"email">>].k = "str"
             /\ p.val.f[<<"fullName">>].k = "str"
             /\ c.v = JSONStringifyComment(p.val.f[<<"fullName">>].v, p.val.f[<<"email">>].v)

\* c is a text that is not JSON, or JSON of something that is no object
NotJsonObject(c) ==
    c.k = "str" /\ LET p == JSONParse(c.v) IN ~p.ok \/ p.val.k # "obj"

\* C4 as stated: decodeComment of either adapter, applied to a missing comment
\* or to a text that is not the encoding of a metadata record, returns
\* {email: '', fullName: ''} and does not raise.
C4_MalformedGivesEmpty ==
    /\ decoded.rest.called /\ (MissingComment(comment) \/ NotRestEncoding(comment))
         => ~decoded.rest.raised /\ IsEmptyRecord(decoded.rest)
    /\ decoded.ssh.called /\ (MissingComment(comment) \/ NotSshEncoding(comment))
         => ~decoded.ssh.raised /\ IsEmptyRecord(decoded.ssh)

\* C4 amended: decodeComment never raises; on a missing comment (null,
\* undefined, empty) both adapters return {email: '', fullName: ''}; the JSON
\* codec of the SSH adapter returns that too for every text that is not JSON
\* or whose JSON value is not an object; the plain-text codec of the REST
\* adapter returns email '' and the trimmed text as fullName.
C4_DecodeTolerant ==
    /\ decoded.rest.called =>
          /\ ~decoded.rest.raised
          /\ decoded.rest.email = EmptyStr
          /\ MissingComment(comment) => IsEmptyRecord(decoded.rest)
          /\ comment.k = "str" => decoded.rest.fullName = JsStr(Trim(comment.v))
    /\ decoded.ssh.called =>
          /\ ~decoded.ssh.raised
          /\ MissingComment(comment) \/ NotJsonObject(comment) => IsEmptyRecord(decoded.ssh)

\* both decoders have run on a non-empty text that is not JSON
C4_Witness ==
    /\ decoded.rest.called /\ decoded.ssh.called
    /\ comment.k = "str" /\ comment.v # <<>> /\ ~JSONParse(comment.v).ok

(***************************************************************************)
(* Specifications                                                          *)
(***************************************************************************)
InitCodec == CodecInit /\ UserIdle /\ ImportIdle /\ VmIdle

NextCodec ==
    \/ CallDecodeRest /\ UNCHANGED <<userVars, importVars, vmVars>>
    \/ CallDecodeSsh /\ UNCHANGED <<userVars, importVars, vmVars>>

SpecCodec == InitCodec /\ [][NextCodec]_vars

InitUsers == UserInit /\ CodecIdle /\ ImportIdle /\ VmIdle

NextUsers ==
    \/ CallCreateUser /\ UNCHANGED <<codecVars, importVars, vmVars>>
    \/ CallListUsers /\ UNCHANGED <<codecVars, importVars, vmVars>>
    \/ CallDeleteUser /\ UNCHANGED <<codecVars, importVars, vmVars>>

SpecUsers == InitUsers /\ [][NextUsers]_vars

InitImport == ImportInit /\ CodecIdle /\ VmIdle

NextImport ==
    \/ ImportBegin /\ UNCHANGED <<codecVars, last, prev, vmVars>>
    \/ ImportRow /\ UNCHANGED <<codecVars, last, prev, vmVars>>
    \/ ImportRespond /\ UNCHANGED <<codecVars, last, prev, vmVars>>

SpecImport == InitImport /\ [][NextImport]_vars

InitVm == VmInit /\ CodecIdle /\ UserIdle /\ ImportIdle

\* a step of deployVM or stopVM leaves the other operations' state alone
VmOnly == UNCHANGED <<codecVars, userVars, importVars>>

NextVm ==
    \/ (\E c \in DeployCallers : DeployBegin(c)) /\ VmOnly
    \/ (\E c \in DeployCallers : DeployProbe(c)) /\ VmOnly
    \/ (\E c \in DeployCallers : DeployCreate(c)) /\ VmOnly
    \/ (\E c \in DeployCallers : DeployImportDisk(c)) /\ VmOnly
    \/ (\E c \in DeployCallers : DeploySetScsi(c)) /\ VmOnly
    \/ (\E c \in DeployCallers : DeploySetBoot(c)) /\ VmOnly
    \/ (\E c \in DeployCallers : DeploySetVga(c)) /\ VmOnly
    \/ (\E c \in DeployCallers : DeployDescribe(c)) /\ VmOnly
    \/ (\E c \in DeployCallers : DeployStartVm(c)) /\ VmOnly
    \/ (\E c \in DeployCallers : DeployPoll(c)) /\ VmOnly
    \/ (\E c \in DeployCallers : DeployCleanup(c)) /\ VmOnly
    \/ StopBegin /\ VmOnly
    \/ StopStop /\ VmOnly
    \/ StopDestroy /\ VmOnly

SpecVm == InitVm /\ [][NextVm]_vars

InitDeployAlone == DeployAloneInit /\ CodecIdle /\ UserIdle /\ ImportIdle

NextDeployAlone ==
    \/ (\E c \in DeployCallers : DeployBegin(c)) /\ VmOnly
    \/ (\E c \in DeployCallers : DeployProbe(c)) /\ VmOnly
    \/ (\E c \in DeployCallers : DeployCreate(c)) /\ VmOnly
    \/ (\E c \in DeployCallers : DeployImportDisk(c)) /\ VmOnly
    \/ (\E c \in DeployCallers : DeploySetScsi(c)) /\ VmOnly
    \/ (\E c \in DeployCallers : DeploySetBoot(c)) /\ VmOnly
    \/ (\E c \in DeployCallers : DeploySetVga(c)) /\ VmOnly
    \/ (\E c \in DeployCallers : DeployDescribe(c)) /\ VmOnly
    \/ (\E c \in DeployCallers : DeployStartVm(c)) /\ VmOnly
    \/ (\E c \in DeployCallers : DeployPoll(c)) /\ VmOnly
    \/ (\E c \in DeployCallers : DeployCleanup(c)) /\ VmOnly

SpecDeployAlone == InitDeployAlone /\ [][NextDeployAlone]_vars

InitRace == RaceInit /\ CodecIdle /\ UserIdle /\ ImportIdle

NextRace ==
    \/ (\E c \in DeployCallers : RaceBegin(c)) /\ VmOnly
    \/ (\E c \in DeployCallers : DeployProbe(c)) /\ VmOnly
    \/ (\E c \in DeployCallers : DeployCreate(c)) /\ VmOnly
    \/ (\E c \in DeployCallers : DeployImportDisk(c)) /\ VmOnly
    \/ (\E c \in DeployCallers : DeploySetScsi(c)) /\ VmOnly
    \/ (\E c \in DeployCallers : DeploySetBoot(c)) /\ VmOnly
    \/ (\E c \in DeployCallers : DeploySetVga(c)) /\ VmOnly
    \/ (\E c \in DeployCallers : DeployDescribe(c)) /\ VmOnly
    \/ (\E c \in DeployCallers : DeployStartVm(c)) /\ VmOnly
    \/ (\E c \in DeployCallers : DeployPoll(c)) /\ VmOnly
    \/ (\E c \in DeployCallers : DeployCleanup(c)) /\ VmOnly

SpecRace == InitRace /\ [][NextRace]_vars

(***************************************************************************)
(* Properties of the user directory operations                             *)
(***************************************************************************)
IsMutating(req) == req.verb \in MutatingVerbs

Mutations(sent) == {i \in 1..Len(sent) : IsMutating(sent[i])}

\* C1: a direct createUser call with a password shorter than 8 characters is
\* rejected, issues no remote mutating call (neither POST /access/users nor
\* pveum user add) and leaves the directory unchanged.
C1_ShortPasswordNoRemoteCall ==
    (last.op = "create" /\ Len(last.password) < MinPasswordLen) =>
        /\ ~last.ok
        /\ Mutations(last.sent) = {}
        /\ DOMAIN directory = last.before

\* the bulk import's half of C1: a row whose password is shorter than 8
\* characters gets ok = false without an identifier, and the import issues at
\* most one creation for each row whose password is long enough
C1_BatchShortPasswordNoRemoteCall ==
    LET done == 1..(rowIx - 1)
        short(i) == Len(Trim(Field(rows[i], Password))) < MinPasswordLen
    IN  ipc \in {"rows", "done"} /\ rows # <<>> =>
          /\ \A i \in done : short(i) => ~results[i].ok /\ results[i].userid = <<>>
          /\ Cardinality(Mutations(requests)) <= Cardinality({i \in done : ~short(i)})

\* C8: when createUser(u) has returned successfully and listUsers is the next
\* call, the listing contains a user whose userid is u.
C8_ListAfterCreate ==
    (last.op = "list" /\ prev.op = "create" /\ prev.ok) => prev.userid \in last.listed

\* a listing that directly follows a successful creation, with either adapter
C8_Witness ==
    /\ last.op = "list" /\ prev.op = "create" /\ prev.ok
    /\ Cardinality(last.listed) >= 2

(***************************************************************************)
(* Properties of the bulk import                                           *)
(***************************************************************************)
\* the lines of the text that hold something else than blanks
NonBlankLines(text) ==
    LET ls == Split(text, "\n")
    IN  Cardinality({i \in 1..Len(ls) : \E k \in 1..Len(ls[i]) : ~IsWs(ls[i][k])})

\* the first non-blank line of a text, trimmed
RECURSIVE HeaderLine(_)
HeaderLine(text) ==
    LET i == IndexOf(text, "\n", 1)
        first == Trim(IF i = 0 THEN text ELSE SubSeq(text, 1, i - 1))
    IN  IF first # <<>> \/ i = 0 THEN first
        ELSE HeaderLine(SubSeq(text, i + 1, Len(text)))

\* the first non-blank line names the three required columns
HeaderOk(text) ==
    LET named == Range(TrimAll(Split(HeaderLine(text), ",")))
    IN  \A i \in 1..Len(RequiredColumns) : RequiredColumns[i] \in named

ValidRow(row) ==
    /\ Field(row, FirstName) # <<>> /\ Field(row, LastName) # <<>>
    /\ Len(Trim(Field(row, Password))) >= MinPasswordLen
    /\ BuildBaseUsername(Field(row, FirstName), Field(row, LastName)) # <<>>

BaseOf(row) == BuildBaseUsername(Field(row, FirstName), Field(row, LastName))

\* base if base@realm is free, else base with the least suffix n >= 1 that is
FirstFree(base, ids) ==
    IF UserIdOf(base) \notin ids THEN base
    ELSE LET free == {n \in 1..(Cardinality(ids) + 1) : UserIdOf(base \o Decimal(n)) \notin ids}
         IN  base \o Decimal(CHOOSE n \in free : \A m \in free : n <= m)

\* the identifiers known before row i: the listing and the earlier successes
IdsBefore(i) == startIds \cup {results[k].userid : k \in {m \in 1..(i - 1) : results[m].ok}}

\* C3: when the host creates every unused identifier it is asked for, two
\* valid rows with the same base username both succeed, the first with
\* base@realm or else the least free suffix, the second with a numeric suffix
\* and another identifier than the first.
C3_SameBaseBothSucceed ==
    ~refused =>
      \A i, j \in 1..Len(rows) :
        (i < j /\ j < rowIx /\ ValidRow(rows[i]) /\ ValidRow(rows[j])
           /\ BaseOf(rows[i]) = BaseOf(rows[j])) =>
          /\ Len(results) >= j
          /\ results[i].ok /\ results[j].ok
          /\ results[i].userid = UserIdOf(FirstFree(BaseOf(rows[i]), IdsBefore(i)))
          /\ \E n \in 1..(Cardinality(existingIds) + 1) :
                results[j].userid = UserIdOf(BaseOf(rows[j]) \o Decimal(n))
          /\ results[j].userid # results[i].userid

\* two valid rows of one base processed where base@realm existed beforehand
C3_Witness ==
    /\ ~refused /\ ipc = "done"
    /\ \E i, j \in 1..Len(rows) :
          /\ i < j /\ ValidRow(rows[i]) /\ ValidRow(rows[j])
          /\ BaseOf(rows[i]) = BaseOf(rows[j])
          /\ UserIdOf(BaseOf(rows[i])) \in startIds
          /\ results[i].ok /\ results[j].ok

\* C7: an import whose header lacks a required column never processes a row
\* and issues no remote call (no listing, no creation); it ends with status
\* 400 and no results.
C7_MissingColumnRejected ==
    ~HeaderOk(csv) =>
        /\ rowIx = 0 /\ results = <<>> /\ requests = <<>>
        /\ ipc = "done" => response.status = 400 /\ response.results = <<>>
                            /\ response.error # <<>>

\* a csv with data rows whose header lacks only the password column, answered
C7_Witness ==
    /\ ipc = "done" /\ response.status = 400
    /\ NonBlankLines(csv) >= 3
    /\ {FirstName, LastName} \subseteq Range(ParseCsv(csv).header)
    /\ Password \notin Range(ParseCsv(csv).header)

IsPrefix(p, t) == Len(p) <= Len(t) /\ SubSeq(t, 1, Len(p)) = p

\* the identifiers the import asked the host to create, in order
AttemptedIds == [k \in 1..Len(SelectSeq(requests, IsMutating)) |->
                    SelectSeq(requests, IsMutating)[k].userid]

HasUserid(r) == r.userid # <<>>

\* the identifiers the results carry, in order
ResultIds == [k \in 1..Len(SelectSeq(results, HasUserid)) |->
                 SelectSeq(results, HasUserid)[k].userid]

\* C14: during and after the loop there is exactly one result per processed
\* row, in input order, whatever the earlier rows did: results[i] is a
\* rejection without identifier when row i fails validation, and otherwise
\* the outcome of a creation attempted for row i's own base (ok with the
\* row's full name, or not ok with the host's error); the creations asked of
\* the host are those of the valid rows, in order; every row is processed
\* before the answer.
C14_RowsIsolated ==
    (ipc \in {"rows", "done"} /\ HeaderOk(csv)) =>
        /\ Len(results) = rowIx - 1
        /\ ipc = "done" => Len(results) = Len(rows) /\ response.results = results
        /\ \A i \in 1..Len(results) :
              IF ValidRow(rows[i])
              THEN /\ results[i].userid # <<>>
                   /\ IsPrefix(BaseOf(rows[i]), BeforeAt(results[i].userid))
                   /\ results[i].ok =>
                         /\ results[i].error = <<>>
                         /\ results[i].fullName =
                              Field(rows[i], FirstName) \o <<" ">> \o Field(rows[i], LastName)
                   /\ ~results[i].ok => results[i].error # <<>>
              ELSE ~results[i].ok /\ results[i].userid = <<>> /\ results[i].error # <<>>
        /\ AttemptedIds = ResultIds

\* a refused creation, then a row rejected by validation, then a success
C14_Witness ==
    /\ ipc = "done" /\ Len(results) = 3
    /\ ~results[1].ok /\ results[1].userid # <<>>
    /\ ~results[2].ok /\ results[2].userid = <<>>
    /\ results[3].ok

\* C15 as stated: an identifier attempted for a row is none of the identifiers
\* of the listing and none of the identifiers attempted for an earlier row,
\* whether that attempt succeeded or failed.
C15_NeverReattempted ==
    \A i \in 1..Len(results) :
        results[i].userid # <<>> =>
          /\ results[i].userid \notin startIds
          /\ \A k \in 1..(i - 1) : results[k].userid # results[i].userid

\* C15 amended: an identifier attempted for a row is none of the identifiers
\* of the listing and none of the identifiers created for an earlier row; the
\* identifiers asked of the host are exactly those the results carry.
C15_NeverReissued ==
    /\ AttemptedIds = ResultIds
    /\ \A i \in 1..Len(results) :
          results[i].userid # <<>> =>
            /\ results[i].userid \notin startIds
            /\ \A k \in 1..(i - 1) : results[k].ok => results[k].userid # results[i].userid

\* base@realm was listed; the first row's identifier was refused by the host,
\* the second row got that identifier, the third the next one
C15_Witness ==
    /\ ipc = "done"
    /\ \E k, i, j \in 1..Len(results) :
          /\ k < i /\ i < j
          /\ BaseOf(rows[k]) = BaseOf(rows[i]) /\ BaseOf(rows[i]) = BaseOf(rows[j])
          /\ UserIdOf(BaseOf(rows[i])) \in startIds
          /\ ~results[k].ok /\ results[k].userid = results[i].userid
          /\ results[i].ok /\ results[j].ok
          /\ results[j].userid # results[i].userid

(***************************************************************************)
(* Properties of the VM lifecycle                                          *)
(***************************************************************************)
Ops(issued) == {issued[k].op : k \in 1..Len(issued)}

\* C5: a stop call on a vmid that does not exist ends as a success with the
\* message "VM already deleted", raises nothing and issues neither qm stop
\* nor qm destroy; so does every further call.
C5_StopAbsentIsSuccess ==
    (sp.pc \in {"done", "failed"} /\ ~sp.existed) =>
        /\ sp.pc = "done" /\ sp.ok
        /\ sp.message = AlreadyDeleted
        /\ sp.error = <<>>
        /\ Ops(sp.issued) \cap {"qm stop", "qm destroy"} = {}

\* a second stop of the same absent vmid, after the first said "already deleted"
C5_Witness ==
    /\ sp.pc = "done" /\ ~sp.existed /\ sp.repeated
    /\ sp.message = AlreadyDeleted

ImportErrors ==
    { <<"Command", "failed">> \o e :
        e \in {NoSuchVm, <<"disk", "image", "does", "not", "exist">>, <<"import", "failed">>} }

\* C6: a deploy that failed at qm importdisk, after its own qm create
\* succeeded, has issued qm destroy for that vmid as its last command, raises
\* the error of the import also when the destroy failed, and when the
\* destroy succeeded no VM of that vmid was left as it returned.
C6_ImportFailureCleansUp ==
    \A c \in DeployCallers :
        LET d == dp[c]
        IN  (d.pc = "failed" /\ d.failedAt = "import" /\ d.created) =>
              /\ d.issued[Len(d.issued)] = Cmd("qm destroy", d.vmid)
              /\ d.issued[Len(d.issued) - 1] = Cmd("qm importdisk", d.vmid)
              /\ Cmd("qm create", d.vmid) \in Range(d.issued)
              /\ d.error \in ImportErrors
              /\ d.cleanupOk => ~d.leftBehind

\* the import failed and the cleanup destroy failed too: the VM shell remains
C6_Witness ==
    \E c \in DeployCallers :
        /\ dp[c].pc = "failed" /\ dp[c].failedAt = "import" /\ dp[c].created
        /\ ~dp[c].cleanupOk /\ dp[c].leftBehind
        /\ dp[c].error = <<"Command", "failed", "import", "failed">>

\* C9: a deploy of a template whose disk file is not on the host issues no
\* qm create and ends with the template-not-found error.
C9_MissingTemplateFails ==
    \A c \in DeployCallers :
        LET d == dp[c]
        IN  (d.calls > 0 /\ d.vmName \notin diskFiles) =>
              /\ "qm create" \notin Ops(d.issued)
              /\ d.pc # "done"
              /\ d.pc = "failed" => d.failedAt = "template"

\* C10: the vmid of qm create is the first identifier, scanning upward from
\* a start in [2000, 9999], that was not an existing VM when probed: it was
\* probed and found free, and every identifier from the start up to it was
\* probed and found taken.
C10_CreatesFirstFreeProbed ==
    \A c \in DeployCallers :
        LET d == dp[c]
        IN  \A k \in 1..Len(d.issued) :
              d.issued[k].op = "qm create" =>
                /\ d.start \in MinStart..(MinStart + StartSpan - 1)
                /\ d.issued[k].vmid \in d.probedFree
                /\ d.issued[k].vmid \notin d.probedBusy
                /\ \A x \in d.start..(d.issued[k].vmid - 1) : x \in d.probedBusy

\* the owner recorded in a VM's metadata, if it has any
OwnerOf(vm) ==
    LET p == JSONParse(vm.desc)
    IN  IF p.ok THEN GetProp(p.val, <<"username">>).val ELSE JsUndefined

\* the requester's name occurs in the VM's metadata text
InMetadata(vm, username) == Includes(vm.desc, username)

\* this step is a stop call's ownership check
StopChecked == sp' # sp /\ Len(sp'.issued) = 1

\* this step is a stop call's destroy that removed the VM
StopRemoved == sp.pc = "destroy" /\ sp.vmid \in DOMAIN vms /\ sp.vmid \notin DOMAIN vms'

\* C12: a stop call on an existing VM whose metadata does not hold the
\* requester's name ends at the ownership check with the ownership error,
\* issues neither qm stop nor qm destroy and leaves every VM as it was.
C12_NonOwnerRefused ==
    [][(StopChecked /\ sp'.vmid \in DOMAIN vms /\ ~InMetadata(vms[sp'.vmid], sp'.username)) =>
          /\ sp'.pc = "failed" /\ sp'.error = NotYours
          /\ sp'.issued = <<Cmd("qm config", sp'.vmid)>>
          /\ vms' = vms]_vars

\* what the code does check: a requester whose name occurs nowhere in the
\* text qm config prints is refused and no VM changes
C12_AbsentFromConfigRefused ==
    [][(StopChecked /\ sp'.vmid \in DOMAIN vms
          /\ ~Includes(ConfigText(vms[sp'.vmid]), sp'.username)) =>
          /\ sp'.pc = "failed" /\ sp'.error = NotYours
          /\ sp'.issued = <<Cmd("qm config", sp'.vmid)>>
          /\ vms' = vms]_vars

\* C18: a stop call gets past the ownership check, and removes the VM, only
\* when the owner recorded in the VM's metadata is exactly the requester.
C18_OnlyExactOwnerStops ==
    [][/\ (StopChecked /\ sp'.pc = "stop") => OwnerOf(vms[sp'.vmid]) = JsStr(sp'.username)
       /\ StopRemoved => OwnerOf(vms[sp.vmid]) = JsStr(sp.username)]_vars

\* C19: a deploy call issues qm destroy only for a vmid it created itself,
\* and no VM that existed when the call began is gone because of it.
C19_CleanupOnlyOwnVm ==
    \A c \in DeployCallers :
        LET d == dp[c]
        IN  /\ "qm destroy" \in Ops(d.issued) => d.created
            /\ (d.pc = "failed" /\ d.cleanupOk) => d.vmid \notin d.existedBefore

VmStates == {"absent", "provisioning", "running", "stopped"}

StateOf(v, id) == IF id \in DOMAIN v THEN v[id].status ELSE "absent"

\* absent -> provisioning -> running -> stopped -> absent, provisioning -> absent
LifecycleEdges ==
    {<<"absent", "provisioning">>, <<"provisioning", "running">>, <<"running", "stopped">>,
     <<"stopped", "absent">>, <<"provisioning", "absent">>}

\* C17: every step moves each VM along an edge of the lifecycle or leaves it,
\* and when a deploy call returns with an error the vmid it worked on is absent.
C17_Lifecycle ==
    [][/\ \A id \in (DOMAIN vms) \cup (DOMAIN vms') :
             \/ StateOf(vms, id) = StateOf(vms', id)
             \/ <<StateOf(vms, id), StateOf(vms', id)>> \in LifecycleEdges
       /\ \A c \in DeployCallers :
             (dp[c].pc = "cleanup" /\ dp'[c].pc = "failed") =>
                 dp'[c].vmid \notin DOMAIN vms']_vars

\* the lifecycle's edges alone
C17_EdgesOnly ==
    [][\A id \in (DOMAIN vms) \cup (DOMAIN vms') :
          \/ StateOf(vms, id) = StateOf(vms', id)
          \/ <<StateOf(vms, id), StateOf(vms', id)>> \in LifecycleEdges]_vars

\* C13: a deploy call whose qm start succeeded only polls or has returned:
\* it has made at most 12 attempts, goes on only while no address was found,
\* returns the address of the attempt that found one or, after 12 attempts
\* without one, the pending marker; it has issued no qm destroy, and no
\* polling step changes a VM.
C13_PollingEndsInSuccess ==
    /\ [](\A c \in DeployCallers :
            LET d == dp[c]
            IN  ("qm start" \in Ops(d.issued) /\ d.failedAt # "start") =>
                  /\ d.pc \in {"poll", "done"}
                  /\ d.polls <= MaxPolls
                  /\ Cardinality({k \in 1..Len(d.issued) : d.issued[k].op = "qm config"}) = d.polls
                  /\ d.pc = "poll" => d.ip = <<>> /\ d.polls < MaxPolls
                  /\ d.pc = "done" =>
                        \/ d.ip = Pending /\ d.polls = MaxPolls
                        \/ d.ip \notin {<<>>, Pending} /\ d.polls \in 1..MaxPolls
                  /\ "qm destroy" \notin Ops(d.issued))
    /\ [][\A c \in DeployCallers :
            (dp[c].pc = "poll" /\ dp'[c] # dp[c]) => vms' = vms]_vars

\* twelve attempts without an address: returned with the marker, VM running
C13_Witness ==
    \E c \in DeployCallers :
        /\ dp[c].pc = "done" /\ dp[c].ip = Pending /\ dp[c].polls = MaxPolls
        /\ dp[c].vmid \in DOMAIN vms /\ vms[dp[c].vmid].status = "running"

\* C20: the expiresAt a successful deploy returns is the expiresAt stored in
\* the VM's description, which is what getVMStatus reports, and both are the
\* stored deployedAt plus 2 hours.
C20_SameExpiry ==
    \A c \in DeployCallers :
        LET d == dp[c]
            seen == GetVMStatus(vms, d.vmid)
        IN  (d.pc = "done" /\ seen.found) =>
              /\ seen.deployedAt = JsStr(Iso(d.deployedAt))
              /\ seen.expiresAt = JsStr(Iso(d.deployedAt + SessionTimeout))
              /\ JsStr(d.expiresAt) = seen.expiresAt

\* the half of C20 about the stored metadata alone
C20_StoredExpiry ==
    \A c \in DeployCallers :
        LET d == dp[c]
            seen == GetVMStatus(vms, d.vmid)
        IN  (d.pc = "done" /\ seen.found) =>
              /\ seen.deployedAt = JsStr(Iso(d.deployedAt))
              /\ seen.expiresAt = JsStr(Iso(d.deployedAt + SessionTimeout))

\* all of a call's 100 probes met an existing VM
AllProbedBusy(d) == d.attempts = MaxProbes /\ Cardinality(d.probedBusy) = MaxProbes

\* C11: a deploy call whose 100 probes all met an existing VM issues neither
\* qm create nor qm destroy, does not return a record, and the error it
\* raises is the allocation-exhausted one.
C11_ExhaustedFails ==
    \A c \in DeployCallers :
        LET d == dp[c]
        IN  AllProbedBusy(d) =>
              /\ Ops(d.issued) \cap {"qm create", "qm destroy"} = {}
              /\ d.pc # "done"
              /\ d.pc = "failed" => d.failedAt = "exhausted"

HasReturned(c) == dp[c].pc \in {"done", "failed"}

\* the call lost the race for its vmid: its qm create met an existing VM
LostRace(d) ==
    /\ d.failedAt = "create"
    /\ Includes(d.error, <<"already", "exists">>)

\* C16: when both calls have returned, chose the same vmid, and one of them
\* lost the race at qm create, the other one created the VM and nothing took
\* it from under that call: the winner raised no missing-VM error, and if it
\* returned a record the VM exists, is the winner's, and has its disk and the
\* winner's metadata.
C16_CollisionIsOnlyAnError ==
    \A l, w \in DeployCallers :
        (l # w /\ HasReturned(l) /\ HasReturned(w) /\ dp[l].vmid = dp[w].vmid /\ LostRace(dp[l])) =>
          /\ dp[w].created /\ ~LostRace(dp[w])
          /\ ~Includes(dp[w].error, NoSuchVm)
          /\ dp[w].pc = "done" =>
                /\ dp[w].vmid \in DOMAIN vms
                /\ vms[dp[w].vmid].by = w
                /\ vms[dp[w].vmid].disk
                /\ OwnerOf(vms[dp[w].vmid]) = JsStr(dp[w].username)

====
